---- MODULE Spec2Model ----
(***************************************************************************)
(* Model of src/scrape.py: the price collection run (main), the batch loop *)
(* (process_batch), the retrying fetch (fetch_prices) and the progress     *)
(* file (load_state / save_state).                                         *)
(***************************************************************************)
EXTENDS Integers, Sequences, FiniteSets, TLC

\* ---------------------------------------------------------------- constants

\* scrape.py:27
MAX_RETRIES == 3
\* scrape.py:26
BATCH_SIZE == 3
\* scrape.py:520, the factor of (2 ** retry_count) * 5
BACKOFF_BASE == 5

\* Number of tracked products of the modelled run (PRODUCTS, scrape.py:14-20).
NumProducts == 4

\* Longest completed list the store harness builds.
MaxCompleted == 3

\* Most failed file writes (progress file, CSV, summary) in one run.
MaxWriteFaults == 1

\* Longest candidate list handed to the sort, the cut and the median.
MaxAggLen == 21

ProductNames == <<"A", "B", "C", "D", "E", "F">>

\* scrape.py:14-20, the names of the tracked products
PRODUCTS == SubSeq(ProductNames, 1, NumProducts)

\* Python's None as a recorded price; every price is >= 1000 (scrape.py:350).
None == 0 - 1

\* The calendar days a run or a persisted file can belong to.
Days == {"D1", "D2"}

\* The day of the modelled runs; the progress file a run finds is of that
\* day or of the other one.
RunDay == "D2"

\* In-range candidate lists one attempt can scrape from the page (dom_prices
\* at scrape.py:506): nothing, an unsorted pair, an unsorted list of 12 (long
\* enough for the 10% cut, and for a second cut of the result to show).
Pages ==
  { <<>>,
    <<15000, 9000>>,
    <<30000, 2000, 11000, 4000, 5000, 6000, 7000, 8000, 9000, 10000, 3000, 12000>> }

\* ------------------------------------------------------------------ helpers

InSeq(x, s) == \E k \in DOMAIN s : s[k] = x

Min(a, b) == IF a < b THEN a ELSE b

RECURSIVE Pow2(_)
Pow2(n) == IF n = 0 THEN 1 ELSE 2 * Pow2(n - 1)

\* dict assignment d[k] = v
Put(d, k, v) == [x \in (DOMAIN d) \cup {k} |-> IF x = k THEN v ELSE d[x]]

\* dict.get(k): None when the key is missing (scrape.py:548)
Get(d, k) == IF k \in DOMAIN d THEN d[k] ELSE None

\* list.sort() (scrape.py:530), by insertion
RECURSIVE Insert(_, _)
Insert(x, s) ==
  IF s = <<>> THEN <<x>>
  ELSE IF x <= Head(s) THEN <<x>> \o s
  ELSE <<Head(s)>> \o Insert(x, Tail(s))

RECURSIVE Sort(_)
Sort(s) == IF s = <<>> THEN <<>> ELSE Insert(Head(s), Sort(Tail(s)))

\* scrape.py:533-536, the 10% cut at both ends of a sorted list
TrimAboveTen(s) ==
  IF Len(s) > 10
  THEN LET k == Len(s) \div 10 IN SubSeq(s, k + 1, Len(s) - k)
  ELSE s

Trim(s) ==
  IF Len(s) >= 10
  THEN LET k == Len(s) \div 10 IN SubSeq(s, k + 1, Len(s) - k)
  ELSE s

\* scrape.py:528-538, what fetch_prices does to the collected prices
PostProcess(prices) == IF prices # <<>> THEN Trim(Sort(prices)) ELSE prices

\* round(median(prices)) (scrape.py:559) of a sorted non-empty list:
\* statistics.median is the middle element or the mean of the two middle
\* elements; round() rounds a half to the even neighbour.
MedianRoundHalfUp(s) ==
  LET n == Len(s) IN
  IF n % 2 = 1 THEN s[(n + 1) \div 2]
  ELSE (s[n \div 2] + s[n \div 2 + 1] + 1) \div 2

MedianRound(s) ==
  LET n == Len(s) IN
  IF n % 2 = 1 THEN s[(n + 1) \div 2]
  ELSE LET sum == s[n \div 2] + s[n \div 2 + 1]
           q == sum \div 2
       IN IF sum % 2 = 0 THEN q
          ELSE IF q % 2 = 0 THEN q ELSE q + 1

\* scrape.py:520
BackoffConstant(retry_count) == BACKOFF_BASE
BackoffWait(retry_count) == Pow2(retry_count) * BACKOFF_BASE

\* scrape.py:519
MayRetryOffByOne(retry_count) == retry_count <= MAX_RETRIES
MayRetry(retry_count) == retry_count < MAX_RETRIES

\* ------------------------------------------------------- the progress file

\* scrape.py:120-124
InitialState == [last_update |-> "", completed |-> <<>>, results |-> <<>>]

\* scrape.py:637-641
FreshState(day) == [last_update |-> day, completed |-> <<>>, results |-> <<>>]

\* json.dump(state, f) (scrape.py:130) writes the object piece by piece: the
\* opening brace, the three members in the dict's order, the closing brace.
Dump(s) == <<"{", s.last_update, s.completed, s.results, "}">>

NoFile == [exists |-> FALSE, chunks |-> <<>>]

FileOf(s) == [exists |-> TRUE, chunks |-> Dump(s)]

\* json.load (scrape.py:115) succeeds only on a whole object
ParseOK(f) == f.exists /\ Len(f.chunks) = 5

Parse(f) ==
  [last_update |-> f.chunks[2], completed |-> f.chunks[3], results |-> f.chunks[4]]

\* scrape.py:110-124
load_state(f) == IF ParseOK(f) THEN Parse(f) ELSE InitialState

\* scrape.py:564-565 and 571-572: the update that marks a product done
MarkDoneNoResult(s, name, price) ==
  [s EXCEPT !.completed = Append(@, name)]
MarkDone(s, name, price) ==
  [s EXCEPT !.completed = Append(@, name), !.results = Put(@, name, price)]

\* scrape.py:558-572: the price recorded for the list fetch_prices returned
RecordedPriceZero(prices) == IF prices # <<>> THEN MedianRound(prices) ELSE 0
RecordedPrice(prices) == IF prices # <<>> THEN MedianRound(prices) ELSE None

\* The state of day d in which product A alone is done, with price r.
DoneA(d, r) ==
  [last_update |-> d, completed |-> <<"A">>, results |-> [x \in {"A"} |-> r]]

\* States a previous run can have left in the progress file.
PersistedStates ==
  { FreshState(d) : d \in Days } \cup { DoneA(d, r) : d \in Days, r \in {12000, None} }

\* The progress file as a run or a caller of load_state can find it: none,
\* a whole one, or one cut short by a failed write.
StoreFiles ==
  {NoFile} \cup { FileOf(s) : s \in PersistedStates } \cup
  { [exists |-> TRUE, chunks |-> SubSeq(Dump(s), 1, 3)] :
      s \in { DoneA(d, 12000) : d \in Days } }

\* The progress files the modelled runs start from.
InitFiles ==
  {NoFile} \cup { FileOf(DoneA(d, 12000)) : d \in Days }

\* ---------------------------------------------------------------- variables

\* ------------------------------------------------- texts, pages, parsing

\* scrape.py:32, most visible texts of one selector that are parsed
MAX_ITEMS == 30

\* scrape.py:35, yen per dollar
USD_TO_JPY == 152

\* scrape.py:350, the plausible price range in yen
PRICE_MIN == 1000

PRICE_MAX == 200000

\* Selectors of the list `selectors` that are modelled (scrape.py:270-279
\* has eight); a selector is its index in the list.
NumSelectors == 3

\* Most selectors of one page that match any element.
MaxPopulated == 2

Selectors == 1..NumSelectors

\* A text is the sequence of its characters; the characters outside ASCII
\* are written by name: "yen" is U+00A5, "wide_yen" is U+FFE5 and "wide_1"
\* is the full-width digit U+FF11.
Digits == {"0", "1", "2", "3", "4", "5", "6", "7", "8", "9"}

\* characters that \d matches besides 0-9: a full-width digit
WideDigits == {"wide_1"}

YenMarks == {"yen", "wide_yen"}

DollarMarks == {"$"}

\* [0-9,]
JpyChars == Digits \cup {","}

\* [0-9,.]
UsdChars == Digits \cup {",", "."}

\* raised by int() on a string that is not a number
ValueError == 0 - 2

\* scrape.py:350, 371, 410, 430, 466, 488: 1000 <= price <= 200000
InRangeNoUpper(price) == PRICE_MIN <= price

InRange(price) == PRICE_MIN <= price /\ price <= PRICE_MAX

\* re.search(r"\d", t) on a text t that may be empty
HasDigit(t) == \E p \in DOMAIN t : t[p] \in Digits \cup WideDigits

\* str.replace(c, '')
Remove(s, c) == SelectSeq(s, LAMBDA x : x # c)

DigitVal(c) == CHOOSE d \in 0..9 : ToString(d) = c

RECURSIVE DigitsValue(_)
DigitsValue(s) ==
  IF s = <<>> THEN 0
  ELSE 10 * DigitsValue(SubSeq(s, 1, Len(s) - 1)) + DigitVal(s[Len(s)])

\* int(s) for a string s of the characters 0-9: the empty string is an error
ToInt(s) == IF s = <<>> THEN ValueError ELSE DigitsValue(s)

\* the least element of a set of numbers
MinOf(S) == CHOOSE x \in S : \A y \in S : x <= y

\* the last position of the run of characters of chars that starts at p
RunEnd(t, p, chars) ==
  CHOOSE q \in p..Len(t) :
    /\ \A r \in p..q : t[r] \in chars
    /\ q = Len(t) \/ t[q + 1] \notin chars

\* where a match of  mark(chars+)  can start at or after position from
MatchStarts(t, marks, chars, from) ==
  { p \in from..(Len(t) - 1) : t[p] \in marks /\ t[p + 1] \in chars }

\* re.search(pattern, t).group(1), or the empty text when nothing matches
SearchGroup(t, marks, chars) ==
  LET starts == MatchStarts(t, marks, chars, 1) IN
  IF starts = {} THEN <<>>
  ELSE LET p == MinOf(starts) IN SubSeq(t, p + 1, RunEnd(t, p + 1, chars))

\* re.findall(pattern, t): the groups of the matches, left to right
RECURSIVE FindAllFrom(_, _, _, _)
FindAllFrom(t, marks, chars, from) ==
  LET starts == MatchStarts(t, marks, chars, from) IN
  IF starts = {} THEN <<>>
  ELSE LET p == MinOf(starts)
           q == RunEnd(t, p + 1, chars)
       IN <<SubSeq(t, p + 1, q)>> \o FindAllFrom(t, marks, chars, q + 1)

\* scrape.py:347-348: the yen amount of a yen group
JpyAmount(group) == ToInt(Remove(group, ","))

\* str.split('.')[0]
BeforeDot(s) ==
  LET dots == { p \in DOMAIN s : s[p] = "." } IN
  IF dots = {} THEN s ELSE SubSeq(s, 1, MinOf(dots) - 1)

\* scrape.py:361-370: the yen amount of a dollar group, whole dollars only
UsdAmount(group) ==
  LET dollars == ToInt(BeforeDot(Remove(group, ","))) IN
  IF dollars = ValueError THEN ValueError ELSE dollars * USD_TO_JPY

\* scrape.py:342-375, the body of `for t in texts`: the candidates, none or
\* one, that the text t adds
ParseTextNoFallThrough(t) ==
  IF ~HasDigit(t) THEN <<>>
  ELSE LET jpy_match == SearchGroup(t, YenMarks, JpyChars)
           usd_match == SearchGroup(t, DollarMarks, UsdChars)
       IN IF jpy_match # <<>>
          THEN IF JpyAmount(jpy_match) # ValueError /\ InRange(JpyAmount(jpy_match))
               THEN <<JpyAmount(jpy_match)>> ELSE <<>>
          ELSE IF /\ usd_match # <<>>
                  /\ UsdAmount(usd_match) # ValueError
                  /\ InRange(UsdAmount(usd_match))
               THEN <<UsdAmount(usd_match)>>
               ELSE <<>>

ParseText(t) ==
  IF ~HasDigit(t) THEN <<>>
  ELSE LET jpy_match == SearchGroup(t, YenMarks, JpyChars)
           usd_match == SearchGroup(t, DollarMarks, UsdChars)
       IN IF /\ jpy_match # <<>>
             /\ JpyAmount(jpy_match) # ValueError
             /\ InRange(JpyAmount(jpy_match))
          THEN <<JpyAmount(jpy_match)>>
          ELSE IF /\ usd_match # <<>>
                  /\ UsdAmount(usd_match) # ValueError
                  /\ InRange(UsdAmount(usd_match))
               THEN <<UsdAmount(usd_match)>>
               ELSE <<>>

\* scrape.py:341, 402: the candidates of a list of texts, in their order
RECURSIVE ParseTexts(_)
ParseTexts(texts) ==
  IF texts = <<>> THEN <<>>
  ELSE ParseText(Head(texts)) \o ParseTexts(Tail(texts))

\* scrape.py:464-469, 478-492: amounts that are numbers and in range
Kept(amounts) == SelectSeq(amounts, LAMBDA a : a # ValueError /\ InRange(a))

\* scrape.py:458-469
JpyPrices(html) ==
  LET groups == FindAllFrom(html, YenMarks, JpyChars, 1) IN
  Kept([k \in DOMAIN groups |-> JpyAmount(groups[k])])

\* scrape.py:472-492
UsdPrices(html) ==
  LET groups == FindAllFrom(html, DollarMarks, UsdChars, 1) IN
  Kept([k \in DOMAIN groups |-> UsdAmount(groups[k])])

\* scrape.py:495
RegexPrices(html) == JpyPrices(html) \o UsdPrices(html)

\* the texts used below
T_1200 == <<"yen", "1", ",", "2", "0", "0">>

T_15000 == <<"yen", "1", "5", ",", "0", "0", "0">>

T_3000 == <<"yen", "3", ",", "0", "0", "0">>

T_NoPrice == <<"n", "o", " ", "p", "r", "i", "c", "e", " ", "h", "e", "r", "e">>

T_Usd100 == <<"$", "1", "0", "0">>

T_UsdFraction == <<"$", "1", ",", "0", "0", "0", ".", "5", "0">>

T_YenLowThenUsd == <<"yen", "5", "0", "0", " ", "$", "1", "0">>

T_UsdNoWhole == <<"$", ".", "5", "0">>

T_YenHigh == <<"wide_yen", "9", "9", "9", ",", "9", "9", "9">>

T_UsdHigh == <<"$", "2", "0", "0", "0">>

T_Count == <<"3", " ", "i", "t", "e", "m", "s">>

T_YenCommaThenUsd == <<"yen", ",", "$", "7">>

T_Wide == <<"wide_yen", "wide_1">>

\* page text outside the selected elements: yen 3,000 / $20.5 / yen 50 /
\* $5000 / yen 2,500
T_Footer ==
  <<"yen", "3", ",", "0", "0", "0", " ", "$", "2", "0", ".", "5", " ",
    "yen", "5", "0", " ", "$", "5", "0", "0", "0", " ",
    "wide_yen", "2", ",", "5", "0", "0">>

\* an element a selector matches: its textContent and whether it is visible
Elem(t, v) == [text |-> t, visible |-> v]

Shown(texts) == [k \in DOMAIN texts |-> Elem(texts[k], TRUE)]

NoElems == <<>>

ClaimElems == Shown(<<T_1200, T_15000, T_NoPrice>>)

MixedElems ==
  Shown(<<T_Usd100, T_YenLowThenUsd, T_UsdNoWhole, T_YenHigh, T_UsdFraction,
          T_Count, T_YenCommaThenUsd, T_UsdHigh, T_Wide>>)

HiddenElems == <<Elem(T_3000, FALSE), Elem(T_Count, TRUE)>>

NoiseElems == Shown(<<T_NoPrice, T_YenHigh>>)

\* MAX_ITEMS texts without a price, then one with a price
LongElems ==
  [k \in 1..(MAX_ITEMS + 1) |->
     IF k <= MAX_ITEMS THEN Elem(T_Count, TRUE) ELSE Elem(T_1200, TRUE)]

\* MAX_ITEMS + 1 priced elements, none of them visible
ManyHiddenElems == [k \in 1..(MAX_ITEMS + 1) |-> Elem(T_1200, FALSE)]

ElemLists ==
  {NoElems, ClaimElems, MixedElems, HiddenElems, NoiseElems, LongElems,
   ManyHiddenElems}

\* scrape.py:326: the texts of the visible elements
VisibleTexts(elems) ==
  LET shown == SelectSeq(elems, LAMBDA e : e.visible) IN
  [k \in DOMAIN shown |-> shown[k].text]

\* scrape.py:391-394: the textContent of every element
AllTexts(elems) == [k \in DOMAIN elems |-> elems[k].text]

\* scrape.py:336-338
Capped(texts) == SubSeq(texts, 1, Min(Len(texts), MAX_ITEMS))

\* A page: the elements each selector matches, the selector (0: none) whose
\* locator query raises, the selector whose JS evaluation raises, and the
\* text of the page outside those elements.
BlankPage ==
  [elems |-> [k \in Selectors |-> NoElems], locErr |-> 0, evalErr |-> 0,
   extra |-> <<>>]

ExtractPages ==
  { [elems |-> e, locErr |-> a, evalErr |-> b, extra |-> x] :
      e \in { f \in [Selectors -> ElemLists] :
                Cardinality({ k \in Selectors : f[k] # NoElems }) <= MaxPopulated },
      a \in 0..NumSelectors, b \in 0..NumSelectors, x \in {<<>>, T_Footer} }

RECURSIVE Flatten(_)
Flatten(texts) ==
  IF texts = <<>> THEN <<>> ELSE Head(texts) \o <<"<">> \o Flatten(Tail(texts))

RECURSIVE ElemsHtml(_, _)
ElemsHtml(pg, k) ==
  IF k > NumSelectors THEN <<>>
  ELSE Flatten(AllTexts(pg.elems[k])) \o ElemsHtml(pg, k + 1)

\* scrape.py:448, page.content(): the text of every element and the rest
Content(pg) == ElemsHtml(pg, 1) \o pg.extra

VARIABLES
  pc,           \* position of the run
  today,        \* dt.date.today().isoformat() (scrape.py:629)
  file,         \* progress.json on disk
  file0,        \* progress.json as the run found it
  state,        \* the dict state of main / process_batch
  i,            \* main's batch offset (scrape.py:650)
  j,            \* index in the batch of the product being processed
  results,      \* process_batch's local results
  all_results,  \* main's all_results
  retry_count,  \* retry_count of the innermost fetch_prices frame
  depth,        \* live fetch_prices frames
  open,         \* browser sessions launched and not yet closed
  outcomes,     \* outcome of each attempt of the current fetch
  waits,        \* backoff sleeps of the current fetch, in seconds
  prices,       \* prices of the innermost frame / the value being returned
  scraped,      \* dom_prices of the current fetch's last attempt that got any
  fetched,      \* products a fetch was started for, in order
  fetchEnd,     \* how the last fetch ended: "none", "returned", "raised"
  saveRet,      \* where the running save_state returns to
  csv,          \* rows appended to mercari_prices.csv
  writeFaults,  \* failed writes of the progress file or of an output file
  exitCode,     \* exit status of the process, -1 while it runs
  lastOp,       \* store harness: the last operation applied
  page,         \* the rendered page one extraction reads
  dom_prices,   \* dom_prices of the extraction (scrape.py:318)
  price_selector, \* index in selectors of the selector to try next
  queried       \* the page queries the extraction made, in order

vars ==
  << pc, today, file, file0, state, i, j, results, all_results, retry_count,
     depth, open, outcomes, waits, prices, scraped, fetched, fetchEnd, saveRet,
     csv, writeFaults, exitCode, lastOp, page, dom_prices, price_selector,
     queried >>

\* what one extraction (scrape.py:317-506) reads and writes
extractVars == << page, dom_prices, price_selector, queried >>

fetchVars ==
  << retry_count, depth, open, outcomes, waits, prices, scraped, fetched, fetchEnd >>
loopVars == << i, j, results, all_results >>
diskVars == << file, csv, writeFaults >>

\* the batch main hands to process_batch (scrape.py:651)
Batch == SubSeq(PRODUCTS, i + 1, Min(i + BATCH_SIZE, Len(PRODUCTS)))

\* the product process_batch is at (scrape.py:544)
Product == Batch[j]

Init ==
  /\ pc = "main"
  /\ today = RunDay
  /\ file \in InitFiles
  /\ file0 = file
  /\ state = InitialState
  /\ i = 0
  /\ j = 1
  /\ results = <<>>
  /\ all_results = <<>>
  /\ retry_count = 0
  /\ depth = 0
  /\ open = 0
  /\ outcomes = <<>>
  /\ waits = <<>>
  /\ prices = <<>>
  /\ scraped = <<>>
  /\ fetched = <<>>
  /\ fetchEnd = "none"
  /\ saveRet = "none"
  /\ csv = <<>>
  /\ writeFaults = 0
  /\ exitCode = 0 - 1
  /\ lastOp = <<>>
  /\ page = BlankPage
  /\ dom_prices = <<>>
  /\ price_selector = 1
  /\ queried = <<>>


\* ------------------------------------------------------------------- main

\* scrape.py:625-634: the run deletes the progress file it finds
MainUnlink ==
  /\ pc = "main"
  /\ UNCHANGED extractVars
  /\ file' = NoFile
  /\ pc' = "m_fresh"
  /\ UNCHANGED << today, file0, state, loopVars, fetchVars, saveRet, csv,
                  writeFaults, exitCode, lastOp >>

\* scrape.py:636-642: a new state for today, saved at once
MainFresh ==
  /\ pc = "m_fresh"
  /\ UNCHANGED extractVars
  /\ state' = FreshState(today)
  /\ all_results' = <<>>
  /\ i' = 0
  /\ pc' = "save_open"
  /\ saveRet' = "m_loop"
  /\ UNCHANGED << today, file0, j, results, fetchVars, diskVars, exitCode, lastOp >>

\* scrape.py:650-656: the next batch, or the end of the loop
MainLoop ==
  /\ pc = "m_loop"
  /\ UNCHANGED extractVars
  /\ IF i < Len(PRODUCTS)
     THEN /\ results' = <<>>
          /\ j' = 1
          /\ pc' = "pb_loop"
     ELSE /\ pc' = "m_check"
          /\ UNCHANGED << results, j >>
  /\ UNCHANGED << today, file0, state, i, all_results, fetchVars, saveRet,
                  diskVars, exitCode, lastOp >>

\* scrape.py:659-663: the pause between two batches
MainBatchDelay ==
  /\ pc = "m_delay"
  /\ UNCHANGED extractVars
  /\ pc' = "m_loop"
  /\ UNCHANGED << today, file0, state, loopVars, fetchVars, saveRet, diskVars,
                  exitCode, lastOp >>

\* scrape.py:665-666: the output is written only when every product is done
MainCheck ==
  /\ pc = "m_check"
  /\ UNCHANGED extractVars
  /\ IF Len(state.completed) = Len(PRODUCTS)
     THEN /\ pc' = "m_csv"
          /\ UNCHANGED exitCode
     ELSE /\ pc' = "done"
          /\ exitCode' = 0
  /\ UNCHANGED << today, file0, state, loopVars, fetchVars, saveRet, diskVars, lastOp >>

\* scrape.py:600: the price cell of a row
Cell(price) == IF price = None THEN "NA" ELSE ToString(price)

\* scrape.py:599-601: one row per entry of results
RECURSIVE RowsSkipNone(_, _)
RowsSkipNone(date, rs) ==
  IF rs = <<>> THEN <<>>
  ELSE IF Head(rs)[2] = None THEN RowsSkipNone(date, Tail(rs))
  ELSE << <<date, Head(rs)[1], ToString(Head(rs)[2])>> >> \o RowsSkipNone(date, Tail(rs))

RECURSIVE Rows(_, _)
Rows(date, rs) ==
  IF rs = <<>> THEN <<>>
  ELSE << <<date, Head(rs)[1], Cell(Head(rs)[2])>> >> \o Rows(date, Tail(rs))

\* scrape.py:585-603 (called at 670)
AppendCsv ==
  /\ pc = "m_csv"
  /\ UNCHANGED extractVars
  /\ csv' = csv \o Rows(today, all_results)
  /\ pc' = "m_summary"
  /\ UNCHANGED << today, file, file0, state, loopVars, fetchVars, saveRet,
                  writeFaults, exitCode, lastOp >>

\* scrape.py:592 raising: caught at 688, main returns normally
AppendCsvFault ==
  /\ pc = "m_csv"
  /\ UNCHANGED extractVars
  /\ writeFaults < MaxWriteFaults
  /\ writeFaults' = writeFaults + 1
  /\ pc' = "done"
  /\ exitCode' = 0
  /\ UNCHANGED << today, file, file0, state, loopVars, fetchVars, saveRet, csv, lastOp >>

\* scrape.py:672-677: the daily summary, then last_update and a save
Summary ==
  /\ pc = "m_summary"
  /\ UNCHANGED extractVars
  /\ state' = [state EXCEPT !.last_update = today]
  /\ pc' = "save_open"
  /\ saveRet' = "m_commit"
  /\ UNCHANGED << today, file0, loopVars, fetchVars, diskVars, exitCode, lastOp >>

\* scrape.py:609 raising: caught at 688, main returns normally
SummaryFault ==
  /\ pc = "m_summary"
  /\ UNCHANGED extractVars
  /\ writeFaults < MaxWriteFaults
  /\ writeFaults' = writeFaults + 1
  /\ pc' = "done"
  /\ exitCode' = 0
  /\ UNCHANGED << today, file, file0, state, loopVars, fetchVars, saveRet, csv, lastOp >>

\* scrape.py:679-684, then main returns
Commit ==
  /\ pc = "m_commit"
  /\ UNCHANGED extractVars
  /\ pc' = "done"
  /\ exitCode' = 0
  /\ UNCHANGED << today, file0, state, loopVars, fetchVars, saveRet, diskVars, lastOp >>

\* the process is killed (or the machine stops) at any point of the run:
\* what is in memory is lost, the files stay as they are
Crash ==
  /\ pc \notin {"done", "crashed", "store"}
  /\ UNCHANGED extractVars
  /\ pc' = "crashed"
  /\ state' = InitialState
  /\ i' = 0
  /\ j' = 1
  /\ results' = <<>>
  /\ all_results' = <<>>
  /\ retry_count' = 0
  /\ depth' = 0
  /\ open' = 0
  /\ outcomes' = <<>>
  /\ waits' = <<>>
  /\ scraped' = <<>>
  /\ prices' = <<>>
  /\ fetchEnd' = "none"
  /\ saveRet' = "none"
  /\ UNCHANGED << today, file0, fetched, diskVars, exitCode, lastOp >>

\* ------------------------------------------------------------- save_state

\* scrape.py:129: open("w") truncates the file
SaveOpen ==
  /\ pc = "save_open"
  /\ UNCHANGED extractVars
  /\ file' = [exists |-> TRUE, chunks |-> <<>>]
  /\ pc' = "save_write"
  /\ UNCHANGED << today, file0, state, loopVars, fetchVars, saveRet, csv,
                  writeFaults, exitCode, lastOp >>

\* scrape.py:129 raising: caught and printed at 132-133
SaveOpenFault ==
  /\ pc = "save_open"
  /\ UNCHANGED extractVars
  /\ writeFaults < MaxWriteFaults
  /\ writeFaults' = writeFaults + 1
  /\ pc' = saveRet
  /\ UNCHANGED << today, file, file0, state, loopVars, fetchVars, saveRet, csv,
                  exitCode, lastOp >>

\* scrape.py:130: the next piece of the object reaches the file
SaveWrite ==
  /\ pc = "save_write"
  /\ UNCHANGED extractVars
  /\ file' = [file EXCEPT !.chunks = Append(@, Dump(state)[Len(@) + 1])]
  /\ pc' = IF Len(file'.chunks) = Len(Dump(state)) THEN saveRet ELSE "save_write"
  /\ UNCHANGED << today, file0, state, loopVars, fetchVars, saveRet, csv,
                  writeFaults, exitCode, lastOp >>

\* scrape.py:130 raising part way: caught and printed at 132-133
SaveWriteFault ==
  /\ pc = "save_write"
  /\ UNCHANGED extractVars
  /\ writeFaults < MaxWriteFaults
  /\ writeFaults' = writeFaults + 1
  /\ pc' = saveRet
  /\ UNCHANGED << today, file, file0, state, loopVars, fetchVars, saveRet, csv,
                  exitCode, lastOp >>


\* ---------------------------------------------------------- process_batch

\* scrape.py:583 and 657: the batch is over, its results join all_results
PbReturn ==
  /\ pc = "pb_loop"
  /\ UNCHANGED extractVars
  /\ j > Len(Batch)
  /\ all_results' = all_results \o results
  /\ i' = i + BATCH_SIZE
  /\ pc' = IF i + BATCH_SIZE < Len(PRODUCTS) THEN "m_delay" ELSE "m_loop"
  /\ UNCHANGED << today, file0, state, j, results, fetchVars, saveRet, diskVars,
                  exitCode, lastOp >>

\* scrape.py:544-556: a completed product is skipped (its stored price is
\* reported unless it is None), any other product is fetched
PbProductSkipSaves ==
  /\ pc = "pb_loop"
  /\ UNCHANGED extractVars
  /\ j <= Len(Batch)
  /\ IF InSeq(Product, state.completed)
     THEN /\ results' = IF Get(state.results, Product) # None
                        THEN Append(results, <<Product, Get(state.results, Product)>>)
                        ELSE results
          /\ j' = j + 1
          /\ pc' = "save_open"
          /\ saveRet' = "pb_loop"
          /\ UNCHANGED fetchVars
     ELSE /\ retry_count' = 0
          /\ depth' = 0
          /\ outcomes' = <<>>
          /\ waits' = <<>>
          /\ prices' = <<>>
          /\ scraped' = <<>>
          /\ fetched' = Append(fetched, Product)
          /\ fetchEnd' = "none"
          /\ pc' = "fp_launch"
          /\ UNCHANGED << open, results, j, saveRet >>
  /\ UNCHANGED << today, file0, state, i, all_results, diskVars, exitCode, lastOp >>

PbProduct ==
  /\ pc = "pb_loop"
  /\ UNCHANGED extractVars
  /\ j <= Len(Batch)
  /\ IF InSeq(Product, state.completed)
     THEN /\ results' = IF Get(state.results, Product) # None
                        THEN Append(results, <<Product, Get(state.results, Product)>>)
                        ELSE results
          /\ j' = j + 1
          /\ pc' = "pb_loop"
          /\ UNCHANGED fetchVars
     ELSE /\ retry_count' = 0
          /\ depth' = 0
          /\ outcomes' = <<>>
          /\ waits' = <<>>
          /\ prices' = <<>>
          /\ scraped' = <<>>
          /\ fetched' = Append(fetched, Product)
          /\ fetchEnd' = "none"
          /\ pc' = "fp_launch"
          /\ UNCHANGED << open, results, j >>
  /\ UNCHANGED << today, file0, state, i, all_results, saveRet, diskVars,
                  exitCode, lastOp >>

\* scrape.py:556-573: the list came back; record the price, mark the product
\* done, save
PbGotSaveLater ==
  /\ pc = "pb_got"
  /\ UNCHANGED extractVars
  /\ LET price == RecordedPrice(prices) IN
       /\ results' = Append(results, <<Product, price>>)
       /\ state' = MarkDone(state, Product, price)
  /\ pc' = "pb_delay"
  /\ retry_count' = 0
  /\ outcomes' = <<>>
  /\ waits' = <<>>
  /\ scraped' = <<>>
  /\ UNCHANGED << today, file0, i, j, all_results, depth, open, prices, fetched,
                  fetchEnd, saveRet, diskVars, exitCode, lastOp >>

PbGot ==
  /\ pc = "pb_got"
  /\ UNCHANGED extractVars
  /\ LET price == RecordedPrice(prices) IN
       /\ results' = Append(results, <<Product, price>>)
       /\ state' = MarkDone(state, Product, price)
  /\ pc' = "save_open"
  /\ saveRet' = "pb_delay"
  /\ retry_count' = 0
  /\ outcomes' = <<>>
  /\ waits' = <<>>
  /\ scraped' = <<>>
  /\ UNCHANGED << today, file0, i, j, all_results, depth, open, prices, fetched,
                  fetchEnd, diskVars, exitCode, lastOp >>

\* scrape.py:575-576: fetch_prices raised; the error is printed
PbExcept ==
  /\ pc = "fp_raise"
  /\ UNCHANGED extractVars
  /\ depth = 0
  /\ fetchEnd' = "raised"
  /\ pc' = "pb_delay"
  /\ retry_count' = 0
  /\ outcomes' = <<>>
  /\ waits' = <<>>
  /\ scraped' = <<>>
  /\ UNCHANGED << today, file0, state, loopVars, depth, open, prices, fetched,
                  saveRet, diskVars, exitCode, lastOp >>

\* scrape.py:578-581: the pause, then the next product
PbDelay ==
  /\ pc = "pb_delay"
  /\ UNCHANGED extractVars
  /\ j' = j + 1
  /\ prices' = <<>>
  /\ fetchEnd' = "none"
  /\ pc' = "pb_loop"
  /\ UNCHANGED << today, file0, state, i, results, all_results, retry_count,
                  depth, open, outcomes, waits, fetched, scraped, saveRet, diskVars,
                  exitCode, lastOp >>

\* ----------------------------------------------------------- fetch_prices

\* scrape.py:154-157: a frame of fetch_prices starts and launches a browser
FpLaunch ==
  /\ pc = "fp_launch"
  /\ UNCHANGED extractVars
  /\ depth' = depth + 1
  /\ open' = open + 1
  /\ prices' = <<>>
  /\ pc' = "fp_setup"
  /\ UNCHANGED << today, file0, state, loopVars, retry_count, outcomes, waits,
                  fetched, scraped, fetchEnd, saveRet, diskVars, exitCode, lastOp >>

\* scrape.py:155-157 raising (outside the try): the frame raises
FpLaunchFault ==
  /\ pc = "fp_launch"
  /\ UNCHANGED extractVars
  /\ outcomes' = Append(outcomes, "launch_fault")
  /\ prices' = <<>>
  /\ pc' = "fp_raise"
  /\ UNCHANGED << today, file0, state, loopVars, retry_count, depth, open, waits,
                  fetched, scraped, fetchEnd, saveRet, diskVars, exitCode, lastOp >>

\* scrape.py:158-223: context, page, cookies, init script
FpSetup ==
  /\ pc = "fp_setup"
  /\ UNCHANGED extractVars
  /\ pc' = "fp_try"
  /\ UNCHANGED << today, file0, state, loopVars, fetchVars, saveRet, diskVars,
                  exitCode, lastOp >>

\* scrape.py:158-223 raising (outside the try): the with block ends the
\* session, the frame raises
FpSetupFault ==
  /\ pc = "fp_setup"
  /\ UNCHANGED extractVars
  /\ outcomes' = Append(outcomes, "setup_fault")
  /\ open' = open - 1
  /\ depth' = depth - 1
  /\ pc' = "fp_raise"
  /\ UNCHANGED << today, file0, state, loopVars, retry_count, waits, prices,
                  fetched, scraped, fetchEnd, saveRet, diskVars, exitCode, lastOp >>

\* scrape.py:225-514: navigation and extraction end without an exception
FpScrape ==
  /\ pc = "fp_try"
  /\ UNCHANGED extractVars
  /\ \E c \in Pages :
       /\ prices' = c
       /\ scraped' = c
       /\ outcomes' = Append(outcomes, IF c = <<>> THEN "empty" ELSE "ok")
  /\ pc' = "fp_finally"
  /\ UNCHANGED << today, file0, state, loopVars, retry_count, depth, open, waits,
                  fetched, fetchEnd, saveRet, diskVars, exitCode, lastOp >>

\* scrape.py:516-519: navigation or extraction raised
FpFault ==
  /\ pc = "fp_try"
  /\ UNCHANGED extractVars
  /\ outcomes' = Append(outcomes, "fault")
  /\ pc' = IF MayRetry(retry_count) THEN "fp_backoff" ELSE "fp_finally"
  /\ UNCHANGED << today, file0, state, loopVars, retry_count, depth, open, waits,
                  prices, fetched, scraped, fetchEnd, saveRet, diskVars, exitCode, lastOp >>

\* scrape.py:520-523: the sleep, then the recursive call
FpBackoff ==
  /\ pc = "fp_backoff"
  /\ UNCHANGED extractVars
  /\ waits' = Append(waits, BackoffWait(retry_count))
  /\ retry_count' = retry_count + 1
  /\ pc' = "fp_launch"
  /\ UNCHANGED << today, file0, state, loopVars, depth, open, outcomes, prices,
                  fetched, scraped, fetchEnd, saveRet, diskVars, exitCode, lastOp >>

\* scrape.py:525-538: the innermost frame closes its browser and returns
\* the sorted, trimmed list
FpFinallyNoClose ==
  /\ pc = "fp_finally"
  /\ UNCHANGED extractVars
  /\ depth' = depth - 1
  /\ prices' = PostProcess(prices)
  /\ pc' = IF depth' > 0 THEN "fp_unwind" ELSE "pb_got"
  /\ fetchEnd' = IF depth' > 0 THEN fetchEnd ELSE "returned"
  /\ UNCHANGED << today, file0, state, loopVars, retry_count, outcomes, waits,
                  open, fetched, scraped, saveRet, diskVars, exitCode, lastOp >>

FpFinally ==
  /\ pc = "fp_finally"
  /\ UNCHANGED extractVars
  /\ open' = open - 1
  /\ depth' = depth - 1
  /\ prices' = PostProcess(prices)
  /\ pc' = IF depth' > 0 THEN "fp_unwind" ELSE "pb_got"
  /\ fetchEnd' = IF depth' > 0 THEN fetchEnd ELSE "returned"
  /\ UNCHANGED << today, file0, state, loopVars, retry_count, outcomes, waits,
                  fetched, scraped, saveRet, diskVars, exitCode, lastOp >>

\* scrape.py:523-526: a retrying frame returns what its recursive call
\* returned, closing its browser on the way
FpUnwindTrimAgain ==
  /\ pc = "fp_unwind"
  /\ UNCHANGED extractVars
  /\ open' = open - 1
  /\ depth' = depth - 1
  /\ prices' = PostProcess(prices)
  /\ pc' = IF depth' > 0 THEN "fp_unwind" ELSE "pb_got"
  /\ fetchEnd' = IF depth' > 0 THEN fetchEnd ELSE "returned"
  /\ UNCHANGED << today, file0, state, loopVars, retry_count, outcomes, waits,
                  fetched, scraped, saveRet, diskVars, exitCode, lastOp >>

FpUnwind ==
  /\ pc = "fp_unwind"
  /\ UNCHANGED extractVars
  /\ open' = open - 1
  /\ depth' = depth - 1
  /\ pc' = IF depth' > 0 THEN "fp_unwind" ELSE "pb_got"
  /\ fetchEnd' = IF depth' > 0 THEN fetchEnd ELSE "returned"
  /\ UNCHANGED << today, file0, state, loopVars, retry_count, outcomes, waits,
                  prices, fetched, scraped, saveRet, diskVars, exitCode, lastOp >>

\* scrape.py:523-526: the recursive call raised; the retrying frame closes
\* its browser and the exception goes on
FpRaiseUnwind ==
  /\ pc = "fp_raise"
  /\ UNCHANGED extractVars
  /\ depth > 0
  /\ open' = open - 1
  /\ depth' = depth - 1
  /\ UNCHANGED << pc, today, file0, state, loopVars, retry_count, outcomes, waits,
                  prices, fetched, scraped, fetchEnd, saveRet, diskVars, exitCode, lastOp >>

\* ------------------------------------------------------------ the program

Next ==
  \/ MainUnlink \/ MainFresh \/ MainLoop \/ MainBatchDelay \/ MainCheck
  \/ AppendCsv \/ AppendCsvFault \/ Summary \/ SummaryFault \/ Commit
  \/ Crash
  \/ SaveOpen \/ SaveOpenFault \/ SaveWrite \/ SaveWriteFault
  \/ PbReturn \/ PbProduct \/ PbGot \/ PbExcept \/ PbDelay
  \/ FpLaunch \/ FpLaunchFault \/ FpSetup \/ FpSetupFault \/ FpScrape
  \/ FpFault \/ FpBackoff \/ FpFinally \/ FpUnwind \/ FpRaiseUnwind

Spec == Init /\ [][Next]_vars


\* ----------------------------------------- the progress store, call by call

\* the names and prices the store operations are called with
StoreNames == {"A", "B"}
StorePrices == {12000, None}

\* a caller holds a state and the progress file is whatever was left
InitStore ==
  /\ pc = "store"
  /\ today \in Days
  /\ file \in StoreFiles
  /\ file0 = file
  /\ state = InitialState
  /\ i = 0
  /\ j = 1
  /\ results = <<>>
  /\ all_results = <<>>
  /\ retry_count = 0
  /\ depth = 0
  /\ open = 0
  /\ outcomes = <<>>
  /\ waits = <<>>
  /\ prices = <<>>
  /\ scraped = <<>>
  /\ fetched = <<>>
  /\ fetchEnd = "none"
  /\ saveRet = "none"
  /\ csv = <<>>
  /\ writeFaults = 0
  /\ exitCode = 0 - 1
  /\ lastOp = <<>>
  /\ page = BlankPage
  /\ dom_prices = <<>>
  /\ price_selector = 1
  /\ queried = <<>>

\* scrape.py:110-124: state = load_state()
StoreLoad ==
  /\ pc = "store"
  /\ UNCHANGED extractVars
  /\ state' = load_state(file)
  /\ lastOp' = <<"load">>
  /\ UNCHANGED << pc, today, file, file0, loopVars, fetchVars, saveRet, csv,
                  writeFaults, exitCode >>

\* scrape.py:563-566 / 570-573: mark a product done and save the state
StoreMarkDone ==
  /\ pc = "store"
  /\ UNCHANGED extractVars
  /\ Len(state.completed) < MaxCompleted
  /\ \E name \in StoreNames, price \in StorePrices :
       /\ state' = MarkDone(state, name, price)
       /\ lastOp' = <<"mark", name, price>>
  /\ file' = FileOf(state')
  /\ UNCHANGED << pc, today, file0, loopVars, fetchVars, saveRet, csv,
                  writeFaults, exitCode >>

\* the same with the write failing part way (scrape.py:132-133)
StoreMarkDoneFault ==
  /\ pc = "store"
  /\ UNCHANGED extractVars
  /\ Len(state.completed) < MaxCompleted
  /\ writeFaults < MaxWriteFaults
  /\ \E name \in StoreNames, price \in StorePrices :
       /\ state' = MarkDone(state, name, price)
       /\ lastOp' = <<"mark", name, price>>
  /\ \E n \in 0..4 : file' = [exists |-> TRUE, chunks |-> SubSeq(Dump(state'), 1, n)]
  /\ writeFaults' = writeFaults + 1
  /\ UNCHANGED << pc, today, file0, loopVars, fetchVars, saveRet, csv, exitCode >>

NextStore == StoreLoad \/ StoreMarkDone \/ StoreMarkDoneFault

SpecStore == InitStore /\ [][NextStore]_vars


\* ------------------------------- sort, cut and median, on their own

\* the list of n amounts off + step, off + 2 * step, ..., rising or falling
AggList(n, off, step, falling) ==
  [k \in 1..n |-> off + step * (IF falling THEN n + 1 - k ELSE k)]

\* Candidate lists for the sort, the cut and the median: consecutive, spaced
\* and equal amounts, counted from 0 and from 1000, in both orders.
AggInputs ==
  { AggList(n, off, step, falling) :
      n \in 0..MaxAggLen, off \in {0, 1000}, step \in {0, 1, 2},
      falling \in BOOLEAN }

\* an attempt has collected the list scraped (scrape.py:506)
InitAgg ==
  /\ pc = "agg"
  /\ scraped \in AggInputs
  /\ prices = scraped
  /\ today = RunDay
  /\ file = NoFile
  /\ file0 = NoFile
  /\ state = InitialState
  /\ i = 0
  /\ j = 1
  /\ results = <<>>
  /\ all_results = <<>>
  /\ retry_count = 0
  /\ depth = 0
  /\ open = 0
  /\ outcomes = <<>>
  /\ waits = <<>>
  /\ fetched = <<>>
  /\ fetchEnd = "none"
  /\ saveRet = "none"
  /\ csv = <<>>
  /\ writeFaults = 0
  /\ exitCode = 0 - 1
  /\ lastOp = <<>>
  /\ page = BlankPage
  /\ dom_prices = <<>>
  /\ price_selector = 1
  /\ queried = <<>>

\* scrape.py:528-538: fetch_prices sorts, cuts and returns the list
AggPostProcess ==
  /\ pc = "agg"
  /\ UNCHANGED extractVars
  /\ prices' = PostProcess(prices)
  /\ pc' = "agg_got"
  /\ UNCHANGED << today, file0, state, loopVars, retry_count, depth, open, outcomes,
                  waits, scraped, fetched, fetchEnd, saveRet, diskVars, exitCode,
                  lastOp >>

\* scrape.py:556-569: process_batch reports the rounded median, or None
AggRecord ==
  /\ pc = "agg_got"
  /\ UNCHANGED extractVars
  /\ results' = Append(results, <<Product, RecordedPrice(prices)>>)
  /\ pc' = "agg_done"
  /\ UNCHANGED << today, file0, state, i, j, all_results, fetchVars, saveRet,
                  diskVars, exitCode, lastOp >>

NextAgg == AggPostProcess \/ AggRecord

SpecAgg == InitAgg /\ [][NextAgg]_vars

\* --------------------------------- one extraction (scrape.py:317-506)

\* the variables an extraction step leaves alone
exRest ==
  << today, file0, state, i, j, all_results, retry_count, depth, open, outcomes,
     waits, scraped, fetched, fetchEnd, saveRet, diskVars, exitCode, lastOp, page >>

\* the page is rendered and scrolled; the selector passes start
InitExtract ==
  /\ pc = "ex_visible"
  /\ page \in ExtractPages
  /\ dom_prices = <<>>
  /\ price_selector = 1
  /\ queried = <<>>
  /\ today = RunDay
  /\ file = NoFile
  /\ file0 = NoFile
  /\ state = InitialState
  /\ i = 0
  /\ j = 1
  /\ results = <<>>
  /\ all_results = <<>>
  /\ retry_count = 0
  /\ depth = 0
  /\ open = 0
  /\ outcomes = <<>>
  /\ waits = <<>>
  /\ prices = <<>>
  /\ scraped = <<>>
  /\ fetched = <<>>
  /\ fetchEnd = "none"
  /\ saveRet = "none"
  /\ csv = <<>>
  /\ writeFaults = 0
  /\ exitCode = 0 - 1
  /\ lastOp = <<>>

\* scrape.py:377, `if dom_prices: break`
VisibleNeverBreak(dom) == FALSE

VisibleBreak(dom) == dom # <<>>

\* scrape.py:384 and 446, `if not dom_prices:`
FallbackAlways(dom) == TRUE

NeedsFallback(dom) == dom = <<>>

\* scrape.py:319-379: one selector of the visible-element pass
ExVisible ==
  /\ pc = "ex_visible"
  /\ price_selector # page.locErr
  /\ LET texts == Capped(VisibleTexts(page.elems[price_selector]))
         dom == dom_prices \o ParseTexts(texts)
         last == VisibleBreak(dom) \/ price_selector = NumSelectors
     IN /\ dom_prices' = dom
        /\ queried' = Append(queried, <<"visible", price_selector>>)
        /\ price_selector' = IF last THEN 1 ELSE price_selector + 1
        /\ pc' = IF ~last THEN "ex_visible"
                 ELSE IF NeedsFallback(dom) THEN "ex_js" ELSE "ex_prices"
  /\ UNCHANGED << exRest, results, prices >>

\* scrape.py:380-381: the selector's query raised, the loop goes on
ExVisibleError ==
  /\ pc = "ex_visible"
  /\ price_selector = page.locErr
  /\ queried' = Append(queried, <<"visible", price_selector>>)
  /\ LET last == price_selector = NumSelectors
     IN /\ price_selector' = IF last THEN 1 ELSE price_selector + 1
        /\ pc' = IF ~last THEN "ex_visible"
                 ELSE IF NeedsFallback(dom_prices) THEN "ex_js" ELSE "ex_prices"
  /\ UNCHANGED << exRest, results, prices, dom_prices >>

\* scrape.py:386-439: one selector of the JS-evaluation pass
ExJsEval ==
  /\ pc = "ex_js"
  /\ price_selector # page.evalErr
  /\ LET js_prices == ParseTexts(AllTexts(page.elems[price_selector]))
         dom == IF js_prices # <<>> THEN js_prices ELSE dom_prices
         last == js_prices # <<>> \/ price_selector = NumSelectors
     IN /\ dom_prices' = dom
        /\ queried' = Append(queried, <<"js_eval", price_selector>>)
        /\ price_selector' = IF last THEN 1 ELSE price_selector + 1
        /\ pc' = IF ~last THEN "ex_js"
                 ELSE IF NeedsFallback(dom) THEN "ex_regex" ELSE "ex_prices"
  /\ UNCHANGED << exRest, results, prices >>

\* scrape.py:440-441: the evaluation raised, the loop goes on
ExJsEvalError ==
  /\ pc = "ex_js"
  /\ price_selector = page.evalErr
  /\ queried' = Append(queried, <<"js_eval", price_selector>>)
  /\ LET last == price_selector = NumSelectors
     IN /\ price_selector' = IF last THEN 1 ELSE price_selector + 1
        /\ pc' = IF ~last THEN "ex_js"
                 ELSE IF NeedsFallback(dom_prices) THEN "ex_regex" ELSE "ex_prices"
  /\ UNCHANGED << exRest, results, prices, dom_prices >>

\* scrape.py:446-498: the scan of the whole page content
ExRegex ==
  /\ pc = "ex_regex"
  /\ LET regex_prices == RegexPrices(Content(page))
     IN dom_prices' = IF regex_prices # <<>> THEN regex_prices ELSE dom_prices
  /\ queried' = Append(queried, <<"regex", 0>>)
  /\ pc' = "ex_prices"
  /\ UNCHANGED << exRest, results, prices, price_selector >>

\* scrape.py:448: page.content() raises, the attempt ends in the except
\* block of fetch_prices (516)
ExContentFault ==
  /\ pc = "ex_regex"
  /\ queried' = Append(queried, <<"regex", 0>>)
  /\ pc' = "ex_except"
  /\ UNCHANGED << exRest, results, prices, price_selector, dom_prices >>

\* scrape.py:506-538: prices = dom_prices, sorted, cut and returned
ExReturn ==
  /\ pc = "ex_prices"
  /\ prices' = PostProcess(dom_prices)
  /\ pc' = "ex_got"
  /\ UNCHANGED << exRest, results, extractVars >>

\* scrape.py:556-569: process_batch reports the rounded median, or None
ExRecord ==
  /\ pc = "ex_got"
  /\ results' = Append(results, <<Product, RecordedPrice(prices)>>)
  /\ pc' = "ex_done"
  /\ UNCHANGED << exRest, prices, extractVars >>

NextExtract ==
  \/ ExVisible
  \/ ExVisibleError
  \/ ExJsEval
  \/ ExJsEvalError
  \/ ExRegex
  \/ ExContentFault
  \/ ExReturn
  \/ ExRecord

SpecExtract == InitExtract /\ [][NextExtract]_vars

\* ------------------------- process_batch called with a loaded state

\* A loaded state with A and B done, B without a price.
DoneAB ==
  [last_update |-> RunDay, completed |-> <<"A", "B">>,
   results |-> [x \in {"A", "B"} |-> IF x = "A" THEN 12000 ELSE None]]

\* The states process_batch is called with: nothing done, A done with a
\* price or without, A and B done.
BatchStates ==
  {FreshState(RunDay), DoneA(RunDay, 12000), DoneA(RunDay, None), DoneAB}

\* scrape.py:540-542: process_batch(products, state) starts on its first
\* batch with a state that is also what the progress file holds
InitBatch ==
  /\ pc = "pb_loop"
  /\ state \in BatchStates
  /\ file = FileOf(state)
  /\ file0 = file
  /\ today = RunDay
  /\ i = 0
  /\ j = 1
  /\ results = <<>>
  /\ all_results = <<>>
  /\ retry_count = 0
  /\ depth = 0
  /\ open = 0
  /\ outcomes = <<>>
  /\ waits = <<>>
  /\ prices = <<>>
  /\ scraped = <<>>
  /\ fetched = <<>>
  /\ fetchEnd = "none"
  /\ saveRet = "none"
  /\ csv = <<>>
  /\ writeFaults = 0
  /\ exitCode = 0 - 1
  /\ lastOp = <<>>
  /\ page = BlankPage
  /\ dom_prices = <<>>
  /\ price_selector = 1
  /\ queried = <<>>

NextBatch ==
  \/ PbReturn \/ PbProduct \/ PbGot \/ PbExcept \/ PbDelay
  \/ SaveOpen \/ SaveOpenFault \/ SaveWrite \/ SaveWriteFault
  \/ FpLaunch \/ FpLaunchFault \/ FpSetup \/ FpSetupFault \/ FpScrape
  \/ FpFault \/ FpBackoff \/ FpFinally \/ FpUnwind \/ FpRaiseUnwind

SpecBatch == InitBatch /\ [][NextBatch]_vars

\* ------------------------------------------------------------- properties

\* the positions inside fetch_prices
FetchPcs ==
  {"fp_launch", "fp_setup", "fp_try", "fp_backoff", "fp_finally", "fp_unwind",
   "fp_raise"}

\* the positions of a fetch_prices call that is on its way to return a list
ReturningPcs == {"fp_finally", "fp_unwind", "pb_got"}

\* C1: when every attempt of a fetch ends without a fault and without any
\* candidate, MAX_RETRIES + 1 attempts have been made by the time the empty
\* list reaches process_batch.
C1_EmptyIsRetried ==
  (/\ pc = "pb_got"
   /\ outcomes # <<>>
   /\ \A k \in DOMAIN outcomes : outcomes[k] = "empty")
  => Len(outcomes) = MAX_RETRIES + 1

\* C2: a fetch whose attempts 0 and 1 fault and whose attempt 2 collects
\* prices makes no further attempt, has slept BACKOFF_BASE then
\* 2 * BACKOFF_BASE seconds, and returns what attempt 2 collected (sorted and
\* trimmed); in every fetch the wait before attempt k+1 is BACKOFF_BASE * 2^k.
C2_RetryWithBackoff ==
  /\ \A k \in DOMAIN waits : waits[k] = BACKOFF_BASE * Pow2(k - 1)
  /\ (/\ Len(outcomes) >= 3
      /\ SubSeq(outcomes, 1, 3) = <<"fault", "fault", "ok">>)
     => /\ Len(outcomes) = 3
        /\ pc \in ReturningPcs
        /\ waits = <<BACKOFF_BASE, 2 * BACKOFF_BASE>>
        /\ scraped # <<>>
        /\ pc = "pb_got" => prices = PostProcess(scraped)

C2_Witness ==
  /\ pc = "pb_got"
  /\ outcomes = <<"fault", "fault", "ok">>
  /\ Len(waits) = 2
  /\ Len(prices) > 1

C4_ResumeSkipsCompleted ==
  file0 = FileOf(DoneA(today, 12000))
  => /\ ~InSeq("A", fetched)
     /\ pc = "done" => /\ InSeq("A", state.completed)
                       /\ Get(state.results, "A") = 12000

\* C5: loading a progress file written for another day than today gives an
\* empty state (nothing completed, no results); the persisted state comes
\* back only from a file of today.
C5_LoadIsFresh ==
  (lastOp = <<"load">> /\ ParseOK(file))
  => IF Parse(file).last_update = today
     THEN state = Parse(file)
     ELSE /\ state.completed = <<>>
          /\ DOMAIN state.results = {}

\* every completed product has an entry in results
Consistent(s) == \A k \in DOMAIN s.completed : s.completed[k] \in DOMAIN s.results

\* C6: whatever the progress file holds at any point of a run (before, in
\* the middle of or after a save, after a failed write, after a crash), the
\* state a reader gets from it has a results entry for every completed
\* product.
C6_ReaderSeesConsistentState ==
  /\ Consistent(load_state(file))
  /\ ParseOK(file) => Consistent(Parse(file))

\* a crash in the middle of a save: the completed list of a done product is
\* on disk, its results are not
C6_Witness ==
  /\ pc = "crashed"
  /\ file.exists
  /\ Len(file.chunks) = 3
  /\ file.chunks[3] # <<>>

\* C7: marking the same product done a second time with the same price
\* leaves the state as the first marking left it, the length of completed
\* included.
C7_MarkDoneIdempotent ==
  [][ (/\ lastOp # <<>>
       /\ lastOp[1] = "mark"
       /\ lastOp' = lastOp)
      => /\ state' = state
         /\ Len(state'.completed) = Len(state.completed) ]_vars

\* C8: once process_batch is through with a product (fetched, empty or
\* faulted) the product is completed and has a results entry; after the
\* whole list every product is completed.
C8_EveryQueryMarkedDone ==
  /\ pc = "pb_delay" => /\ InSeq(Product, state.completed)
                        /\ Product \in DOMAIN state.results
  /\ pc = "m_check" => \A k \in DOMAIN PRODUCTS :
                          /\ InSeq(PRODUCTS[k], state.completed)
                          /\ PRODUCTS[k] \in DOMAIN state.results

\* C9: when fetch_prices hands process_batch the empty list, the product is
\* appended to completed with None as its result and reported with None,
\* the state is saved, nothing is raised, and after the pause process_batch
\* goes on with the next product of the batch.
C9_SoftFailureRecordedAsNull ==
  /\ [][ (pc = "pb_got" /\ prices = <<>> /\ pc' # "crashed")
         => /\ state'.completed = Append(state.completed, Product)
            /\ Product \in DOMAIN state'.results
            /\ state'.results[Product] = None
            /\ results' = Append(results, <<Product, None>>)
            /\ pc' = "save_open"
            /\ saveRet' = "pb_delay"
            /\ UNCHANGED << i, j, open, depth >> ]_vars
  /\ [][ (pc = "pb_delay" /\ pc' # "crashed")
         => /\ pc' = "pb_loop"
            /\ j' = j + 1
            /\ UNCHANGED << i, state, results >> ]_vars

C9_Witness ==
  /\ pc = "pb_loop"
  /\ j = 2
  /\ i = 0
  /\ state.completed = <<"A">>
  /\ state.results["A"] = None
  /\ results = << <<"A", None>> >>

\* C10: after a failed write of the progress file or of an output file the
\* run does not go on to further products and ends with a non-zero exit
\* status; a run without such a fault ends with status 0.
C10_WriteFaultAborts ==
  /\ writeFaults > 0 => /\ pc \notin FetchPcs \cup {"pb_loop", "pb_got", "pb_delay"}
                        /\ pc = "done" => exitCode # 0
  /\ (pc = "done" /\ writeFaults = 0) => exitCode = 0


\* C11: at every point of a run at most one browser session is open.
C11_OneSessionAtMost == open <= 1

\* C12: the queries are fetched in list order, each once; every fetch
\* attempt belongs to the query started last; and when the first attempt of
\* a query is about to start, every earlier query is over: its sessions are
\* closed, only earlier queries are completed, each with its results entry,
\* and (unless a write failed) the progress file holds that state.
C12_QueriesSequential ==
  /\ fetched = SubSeq(PRODUCTS, 1, Len(fetched))
  /\ pc \in FetchPcs \cup {"pb_got"} => /\ fetched # <<>>
                                        /\ Product = fetched[Len(fetched)]
  /\ (pc = "fp_launch" /\ outcomes = <<>>)
     => /\ open = 0
        /\ depth = 0
        /\ \A k \in DOMAIN state.completed :
             /\ InSeq(state.completed[k], SubSeq(fetched, 1, Len(fetched) - 1))
             /\ state.completed[k] \in DOMAIN state.results
        /\ writeFaults = 0 => file = FileOf(state)

C12_Witness ==
  /\ pc = "fp_launch"
  /\ outcomes = <<>>
  /\ fetched = <<"A", "B">>
  /\ state.completed = <<"A">>
  /\ file = FileOf(state)

\* C17: whenever the run has written to the CSV file, it has written one
\* row per tracked product, in the order of PRODUCTS, with the recorded
\* median as text, or "NA" when the recorded result is None (compared with
\* the results the running process holds).
C17_OneRowPerProduct ==
  (csv # <<>> /\ pc # "crashed")
  => /\ Len(csv) = Len(PRODUCTS)
     /\ \A k \in DOMAIN PRODUCTS :
          /\ PRODUCTS[k] \in DOMAIN state.results
          /\ csv[k] = << today, PRODUCTS[k],
                         IF state.results[PRODUCTS[k]] = None
                         THEN "NA" ELSE ToString(state.results[PRODUCTS[k]]) >>
          /\ csv[k][3] = "NA" <=> state.results[PRODUCTS[k]] = None

C17_Witness ==
  /\ Len(csv) = Len(PRODUCTS)
  /\ csv[1][3] = "NA"
  /\ csv[2][3] = "12000"


\* C14: the list fetch_prices returns is the sorted candidate list without
\* its floor(n/10) smallest and floor(n/10) largest elements when n >= 10,
\* and the whole sorted list when n < 10.
C14_TenPercentTrim ==
  pc \in {"agg_got", "agg_done"}
  => LET n == Len(scraped)
         k == n \div 10
         sorted == Sort(scraped)
     IN /\ \A m \in 1..(Len(prices) - 1) : prices[m] <= prices[m + 1]
        /\ IF n >= 10
           THEN /\ Len(prices) = n - 2 * k
                /\ \A m \in DOMAIN prices : prices[m] = sorted[m + k]
           ELSE prices = sorted

C14_Witness ==
  /\ pc = "agg_got"
  /\ Len(scraped) = 20
  /\ scraped[1] = 20
  /\ prices = [m \in 1..16 |-> m + 2]

\* the two middle elements of an even-sized list, added
MiddleSum(s) == s[Len(s) \div 2] + s[Len(s) \div 2 + 1]

\* the median process_batch reported
ReportedMedian == results[1][2]

\* C15 as claimed: the median of an odd-sized list is its middle element, of
\* an even-sized list the mean of the two middle elements rounded to an
\* integer, and for the candidates 1..20 it is 11.
C15_MedianOf1To20Is11 ==
  (pc = "agg_done" /\ prices # <<>>)
  => /\ Len(prices) % 2 = 1 => ReportedMedian = prices[(Len(prices) + 1) \div 2]
     /\ Len(prices) % 2 = 0 =>
          /\ 2 * ReportedMedian >= MiddleSum(prices) - 1
          /\ 2 * ReportedMedian <= MiddleSum(prices) + 1
     /\ scraped = AggList(20, 0, 1, FALSE) => ReportedMedian = 11

\* C15 as the code has it: the mean of the two middle elements is rounded to
\* the nearest integer and a half goes to the even neighbour; for the
\* candidates 1..20 (middle values 10 and 11) the median is 10.
C15_MedianRoundsHalfToEven ==
  (pc = "agg_done" /\ prices # <<>>)
  => /\ Len(prices) % 2 = 1 => ReportedMedian = prices[(Len(prices) + 1) \div 2]
     /\ Len(prices) % 2 = 0 =>
          IF MiddleSum(prices) % 2 = 0
          THEN 2 * ReportedMedian = MiddleSum(prices)
          ELSE /\ ReportedMedian % 2 = 0
               /\ 2 * ReportedMedian - MiddleSum(prices) \in {0 - 1, 1}
     /\ scraped = AggList(20, 0, 1, FALSE) =>
          /\ prices = [m \in 1..16 |-> m + 2]
          /\ ReportedMedian = 10

C15_Witness ==
  /\ pc = "agg_done"
  /\ scraped = AggList(20, 0, 1, FALSE)
  /\ ReportedMedian = 10

\* the queries of the visible-element pass and of the JS-evaluation pass
VisQ == SelectSeq(queried, LAMBDA e : e[1] = "visible")

JsQ == SelectSeq(queried, LAMBDA e : e[1] = "js_eval")

RegexQueried == \E m \in DOMAIN queried : queried[m][1] = "regex"

\* what a query of selector k gives each pass: nothing when it raises
VisYield(k) ==
  IF page.locErr = k THEN <<>>
  ELSE ParseTexts(Capped(VisibleTexts(page.elems[k])))

JsYield(k) ==
  IF page.evalErr = k THEN <<>> ELSE ParseTexts(AllTexts(page.elems[k]))

\* the extraction ended in the visible-element pass, with candidates
VisProductive ==
  /\ pc = "ex_prices"
  /\ queried # <<>>
  /\ queried[Len(queried)][1] = "visible"
  /\ dom_prices # <<>>

\* the texts the productive selector of the visible-element pass gave
ParsedTexts == Capped(VisibleTexts(page.elems[queried[Len(queried)][2]]))

\* C13 as claimed: the first strategy invoked is the JSON-tree one, the
\* selector strategy is invoked only after it, the raw regex only after
\* both, and an empty result means all three were invoked.
C13_JsonThenDomThenRegex ==
  /\ queried # <<>> => queried[1][1] = "json"
  /\ \A m \in DOMAIN queried :
       queried[m][1] \in {"visible", "js_eval", "regex"}
       => \E n \in 1..(m - 1) : queried[n][1] = "json"
  /\ \A m \in DOMAIN queried :
       queried[m][1] = "regex"
       => \E n \in 1..(m - 1) : queried[n][1] \in {"visible", "js_eval"}
  /\ (pc = "ex_prices" /\ dom_prices = <<>>)
     => \A s \in {"json", "regex"} : \E m \in DOMAIN queried : queried[m][1] = s

\* C16: every amount an extraction collects and fetch_prices returns lies
\* in 1000..200000, whichever pass and currency produced it, and so does
\* the median process_batch records when there is one.
C16_PricesWithinBounds ==
  /\ \A m \in DOMAIN dom_prices :
       dom_prices[m] >= 1000 /\ dom_prices[m] <= 200000
  /\ pc \in {"ex_got", "ex_done"}
     => \A m \in DOMAIN prices : prices[m] >= 1000 /\ prices[m] <= 200000
  /\ (pc = "ex_done" /\ ReportedMedian # None)
     => ReportedMedian >= 1000 /\ ReportedMedian <= 200000

C16_Witness ==
  /\ pc = "ex_done"
  /\ page.elems[1] = MixedElems
  /\ queried = << <<"visible", 1>> >>
  /\ ReportedMedian = 8360

\* the digits of a group
OnlyDigits(s) == SelectSeq(s, LAMBDA x : x \in Digits)

\* the currency-marked digit group of a text, empty if it has none
MarkedGroup(t) ==
  IF SearchGroup(t, YenMarks, JpyChars) # <<>>
  THEN SearchGroup(t, YenMarks, JpyChars)
  ELSE SearchGroup(t, DollarMarks, UsdChars)

\* the candidates of the texts whose index is in keep, each the number its
\* group's digits spell
DigitsOfKept(texts, keep) ==
  LET idx == SelectSeq([m \in DOMAIN texts |-> m], LAMBDA m : m \in keep)
  IN [n \in DOMAIN idx |-> DigitsValue(OnlyDigits(MarkedGroup(texts[idx[n]])))]

\* C18 as claimed: the candidates of a selector's texts are, in the order
\* of the texts, the digits of the currency-marked group of some of the
\* texts that have a digit and such a group, at most one per text; the
\* claim's three texts give 1200 and 15000.
C18_CandidateIsGroupDigits ==
  VisProductive
  => /\ \E keep \in SUBSET DOMAIN ParsedTexts :
          /\ \A m \in keep : /\ HasDigit(ParsedTexts[m])
                             /\ MarkedGroup(ParsedTexts[m]) # <<>>
          /\ dom_prices = DigitsOfKept(ParsedTexts, keep)
     /\ ParsedTexts = <<T_1200, T_15000, T_NoPrice>>
        => dom_prices = <<1200, 15000>>

\* what each text used here is to contribute
ExpectedOf(t) ==
  CASE t = T_1200 -> <<1200>>
    [] t = T_15000 -> <<15000>>
    [] t = T_3000 -> <<3000>>
    [] t = T_Usd100 -> <<100 * 152>>
    [] t = T_UsdFraction -> <<1000 * 152>>
    [] t = T_YenLowThenUsd -> <<10 * 152>>
    [] t = T_YenCommaThenUsd -> <<7 * 152>>
    [] OTHER -> <<>>

RECURSIVE ExpectedAll(_)
ExpectedAll(texts) ==
  IF texts = <<>> THEN <<>>
  ELSE ExpectedOf(Head(texts)) \o ExpectedAll(Tail(texts))

\* C18 as the code has it: each of the first 30 visible texts of the
\* selector contributes at most one candidate, in the order of the texts:
\* the digits of its first yen-marked group if that number lies in
\* 1000..200000; otherwise 152 times the whole dollars of its first
\* dollar-marked group if that product lies in 1000..200000; otherwise, and
\* when it has no digit, nothing.  The claim's three texts give 1200, 15000.
C18_TextParsing ==
  VisProductive
  => /\ dom_prices = ExpectedAll(ParsedTexts)
     /\ Len(dom_prices) <= Len(SelectSeq(ParsedTexts, HasDigit))
     /\ ParsedTexts = <<T_1200, T_15000, T_NoPrice>>
        => dom_prices = <<1200, 15000>>

C18_Witness ==
  /\ VisProductive
  /\ ParsedTexts = VisibleTexts(MixedElems)
  /\ dom_prices = <<15200, 1520, 152000, 1064>>

\* C19: each selector pass queries the selectors in list order and queries
\* none after the first that gave a candidate; the candidates a pass ends
\* with are those of the selector queried last alone, also when an earlier
\* selector raised.
C19_FirstProductiveSelector ==
  /\ \A m \in DOMAIN VisQ : VisQ[m][2] = m
  /\ \A m \in DOMAIN JsQ : JsQ[m][2] = m
  /\ \A m \in 1..(Len(VisQ) - 1) : VisYield(m) = <<>>
  /\ \A m \in 1..(Len(JsQ) - 1) : JsYield(m) = <<>>
  /\ pc = "ex_visible" => dom_prices = <<>>
  /\ VisProductive => dom_prices = VisYield(Len(VisQ))
  /\ (/\ pc = "ex_prices"
      /\ queried # <<>>
      /\ queried[Len(queried)][1] = "js_eval"
      /\ dom_prices # <<>>)
     => dom_prices = JsYield(Len(JsQ))

C19_Witness ==
  /\ pc = "ex_prices"
  /\ page.locErr = 1
  /\ page.elems[1] = MixedElems
  /\ page.elems[2] = ClaimElems
  /\ queried = << <<"visible", 1>>, <<"visible", 2>> >>
  /\ dom_prices = <<1200, 15000>>

\* C20: the page content is scanned only after every selector was queried
\* in both passes and none gave a candidate, the scan is the last query,
\* and after it the candidates are the yen amounts found in the content
\* followed by the dollar amounts.
C20_RegexIsLastResort ==
  RegexQueried
  => /\ Len(VisQ) = NumSelectors
     /\ Len(JsQ) = NumSelectors
     /\ \A k \in Selectors : VisYield(k) = <<>> /\ JsYield(k) = <<>>
     /\ queried[Len(queried)][1] = "regex"
     /\ \A m \in 1..(Len(queried) - 1) : queried[m][1] # "regex"
     /\ pc = "ex_prices"
        => dom_prices = JpyPrices(Content(page)) \o UsdPrices(Content(page))

C20_Witness ==
  /\ pc = "ex_prices"
  /\ RegexQueried
  /\ page.elems[1] = NoiseElems
  /\ page.elems[2] = HiddenElems
  /\ page.evalErr = 2
  /\ dom_prices = <<3000, 3000, 2500, 3040>>

\* C21: the candidates one attempt collects are at most MAX_ITEMS (30),
\* whichever pass (visible elements, JS evaluation, raw regex) found them.
C21_ItemCap == Len(dom_prices) <= 30

\* C22: when a fetch returns after r <= MAX_RETRIES faulted attempts and a
\* last attempt that collected candidates, the list it returns is the sorted
\* candidates cut once: without floor(n/10) elements at each end when
\* n >= 10, whole otherwise, whatever r is.
C22_TrimmedOnce ==
  (pc = "pb_got" /\ outcomes # <<>> /\ outcomes[Len(outcomes)] = "ok")
  => LET sorted == Sort(scraped)
         n == Len(sorted)
         k == n \div 10
     IN /\ Len(outcomes) - 1 <= MAX_RETRIES
        /\ \A m \in 1..(Len(outcomes) - 1) : outcomes[m] = "fault"
        /\ prices = IF n >= 10 THEN SubSeq(sorted, k + 1, n - k) ELSE sorted

C22_Witness ==
  /\ pc = "pb_got"
  /\ outcomes = <<"fault", "fault", "fault", "ok">>
  /\ Len(scraped) = 12
  /\ prices = <<3000, 4000, 5000, 6000, 7000, 8000, 9000, 10000, 11000, 12000>>

Names == { PRODUCTS[k] : k \in DOMAIN PRODUCTS }

\* process_batch is at the top of its loop with a product it will skip
AtSkip == pc = "pb_loop" /\ j <= Len(Batch) /\ InSeq(Product, state.completed)

\* C24 as claimed: whenever process_batch is at the top of its loop, its
\* results hold one entry for each product it has passed, in input order, a
\* skipped product's entry carrying its stored result, None included.
C24_OneEntryPerProduct ==
  pc = "pb_loop"
  => /\ Len(results) = j - 1
     /\ \A k \in DOMAIN results :
          /\ results[k][1] = Batch[k]
          /\ InSeq(Batch[k], file0.chunks[3])
             => results[k][2] = file0.chunks[4][Batch[k]]

\* C25: no step changes whether another product than the one being
\* processed is in completed, or that product's results entry; the step
\* that skips a completed product changes neither the state nor the progress
\* file and starts no save.
C25_FrameOfStateUpdate ==
  [][ /\ j > Len(Batch) => state' = state
      /\ j <= Len(Batch) =>
           \A x \in Names \ {Product} :
             /\ InSeq(x, state'.completed) <=> InSeq(x, state.completed)
             /\ x \in DOMAIN state'.results <=> x \in DOMAIN state.results
             /\ x \in DOMAIN state.results => state'.results[x] = state.results[x]
      /\ AtSkip => /\ state' = state
                   /\ file' = file
                   /\ writeFaults' = writeFaults
                   /\ pc' = "pb_loop"
                   /\ j' = j + 1
    ]_vars

C25_Witness ==
  /\ pc = "pb_loop"
  /\ j = 3
  /\ fetched = <<>>
  /\ state = DoneAB
  /\ file = FileOf(DoneAB)
  /\ results = << <<"A", 12000>> >>

====
